---- MODULE Spec2Model ----
(***************************************************************************)
(* A model of the Local Agent Chat Python SDK (sdk/python/agent_chat.py):  *)
(* the SSE parser _stream_sse, the reconnecting controller                 *)
(* AgentChat.stream_reconnecting, the room resolver AgentChat._resolve_room *)
(* and the transport _request.                                             *)
(*                                                                         *)
(* Python str values are sequences of one-character strings.  Python       *)
(* objects that may be of several types (the value json.loads returns,     *)
(* an Optional) are records tagged by the field k: "none", "int", "str",   *)
(* "bool", "dict".                                                         *)
(***************************************************************************)
EXTENDS Integers, Sequences, FiniteSets, TLC

VARIABLES
    \* ---- _stream_sse run alone (specification SpecParser)
    p_pairs,      \* the (eventType, payload lines) pairs put on the wire
    p_wire,       \* raw lines of the response not read yet
    p_state,      \* locals of _stream_sse: event_type, data_lines
    p_out,        \* the SSEEvents yielded so far
    \* ---- _request run alone (specification SpecRequest)
    rq_in,        \* the response the request met and the raw flag
    rq_out,       \* what _request returned or raised
    \* ---- the client and the chat service's rooms
    room_cache,   \* self._room_cache: name -> id
    srv_rooms,    \* the rooms of the service, in listing order: [name, id]
    listings,     \* listing requests sent so far
    r_last,       \* the last resolver operation: its reference and outcome
    r_resolved,   \* the names a resolve has returned an id for
    r_ops,        \* operations done so far (bounded by MaxOps)
    \* ---- stream_reconnecting (specification SpecStream)
    s_room,       \* argument room
    s_max_backoff,\* argument max_backoff
    pc,           \* "connecting", "streaming", "sleeping", "raised"
    last_seq,     \* local last_seq
    backoff,      \* local backoff
    parser,       \* locals of the running _stream_sse
    exc,          \* the exception raised to the consumer, "" if none
    wire,         \* raw lines sent on the open connection and not read yet
    srv_mode,     \* "log": the service replays its log and honours `after`;
                  \* "any": it sends any records; "beat": it sends events
                  \* and heartbeats that carry a seq
    srv_pos,      \* index in the log of the next event of this connection
    extras,       \* records sent that are not replayed log events
    attempts,     \* connection attempts so far
    after_sent,   \* the `after` parameter of the last attempt
    produced,     \* every event _stream_sse produced, over all connections
    yielded,      \* every event yielded to the consumer
    sleep_dur,    \* the duration of the last sleep, 0 before the first
    escalated,    \* some sleep so far was longer than the initial backoff
    fails,        \* caught failures since the last consumed event
    cut,          \* some connection was lost or ended inside a record
    max_seen,     \* the maximum numeric seq the cursor rule has consumed
    slept,        \* time.sleep returned since the last connection attempt
    open_conns,   \* the response handles that are open: the attempt, and
                  \* whether the with block or a caught exception holds it
    at_yield,     \* the generator is suspended at its yield
    \* threads that share one client
    th,           \* each thread's position and locals
    cache_stamp,  \* for each cached name, when the pair was fetched or created
    clock,        \* the answers of the service to the threads so far
    \* examples/agent-sse.py
    e_pc,         \* where main is: "connecting", "streaming", "sleeping", "raised"
    e_parser,     \* event_type and data_lines of stream_sse
    e_wire,       \* lines sent on the connection and not read yet
    e_pos,        \* index of the next record the service sends on this connection
    e_attempts,   \* connection attempts so far
    e_handled,    \* the ids of the messages handle_message was invoked with
    e_replies     \* the reply_to of the messages send_message has sent

pvars == <<p_pairs, p_wire, p_state, p_out>>
rqvars == <<rq_in, rq_out>>
cachevars == <<room_cache, srv_rooms, listings>>
rvars == <<r_last, r_resolved, r_ops>>
svars == <<s_room, s_max_backoff, pc, last_seq, backoff, parser, exc, wire,
           srv_mode, srv_pos, extras, attempts, after_sent, produced, yielded,
           sleep_dur, escalated, fails, cut, max_seen, slept, open_conns,
           at_yield>>

tvars == <<th, cache_stamp, clock>>

evars == <<e_pc, e_parser, e_wire, e_pos, e_attempts, e_handled, e_replies>>

vars == <<pvars, rqvars, cachevars, rvars, svars, tvars, evars>>

(***************************************************************************)
(* Python values                                                           *)
(***************************************************************************)
PyNone == [k |-> "none"]
PyStr(s) == [k |-> "str", v |-> s]
PyInt(n) == [k |-> "int", v |-> n]
PyBool(b) == [k |-> "bool", v |-> b]
PyDict(f) == [k |-> "dict", v |-> f]
EmptyMap == [x \in {} |-> PyNone]

\* truth value of an Optional[str]: None and "" are false
StrTruthy(x) == x.k = "str" /\ x.v # <<>>

(***************************************************************************)
(* str methods                                                             *)
(***************************************************************************)
\* str.startswith
StartsWith(s, p) == Len(s) >= Len(p) /\ SubSeq(s, 1, Len(p)) = p

\* the characters str.strip() removes, among those of the model's alphabet
Whitespace == {" ", "\t", "\n", "\r"}

RECURSIVE LStripSet(_, _)
LStripSet(s, cs) ==
    IF s # <<>> /\ Head(s) \in cs THEN LStripSet(Tail(s), cs) ELSE s

RECURSIVE RStripSet(_, _)
RStripSet(s, cs) ==
    IF s # <<>> /\ s[Len(s)] \in cs
    THEN RStripSet(SubSeq(s, 1, Len(s) - 1), cs)
    ELSE s

\* str.strip()
Strip(s) == RStripSet(LStripSet(s, Whitespace), Whitespace)

\* str.rstrip("\n")
RStripNewline(s) == RStripSet(s, {"\n"})

\* "\n".join(lines)
RECURSIVE JoinLines(_)
JoinLines(ls) ==
    IF ls = <<>> THEN <<>>
    ELSE IF Len(ls) = 1 THEN ls[1]
    ELSE ls[1] \o <<"\n">> \o JoinLines(Tail(ls))

\* str.count(c)
RECURSIVE Count(_, _)
Count(s, c) ==
    IF s = <<>> THEN 0
    ELSE (IF Head(s) = c THEN 1 ELSE 0) + Count(Tail(s), c)

(***************************************************************************)
(* json.loads, for the JSON texts of the model: whitespace, integers,      *)
(* strings without escapes, null, true, false and objects.                 *)
(***************************************************************************)
JsonWs == {" ", "\t", "\n", "\r"}
DigitChars == {"0", "1", "2", "3", "4", "5", "6", "7", "8", "9"}
DigitVal(c) ==
    CASE c = "0" -> 0 [] c = "1" -> 1 [] c = "2" -> 2 [] c = "3" -> 3
      [] c = "4" -> 4 [] c = "5" -> 5 [] c = "6" -> 6 [] c = "7" -> 7
      [] c = "8" -> 8 [] c = "9" -> 9
\* characters a JSON string may not hold unescaped (strict mode)
JsonCtl == {"\n", "\t", "\r"}

JFail == [ok |-> FALSE, val |-> PyNone, pos |-> 0]
JOk(v, p) == [ok |-> TRUE, val |-> v, pos |-> p]

RECURSIVE SkipWs(_, _)
SkipWs(s, i) == IF i <= Len(s) /\ s[i] \in JsonWs THEN SkipWs(s, i + 1) ELSE i

\* the digits from position i on: [val, pos] with pos the first non-digit
RECURSIVE ScanDigits(_, _, _)
ScanDigits(s, i, acc) ==
    IF i <= Len(s) /\ s[i] \in DigitChars
    THEN ScanDigits(s, i + 1, 10 * acc + DigitVal(s[i]))
    ELSE [val |-> acc, pos |-> i]

\* -?(0|[1-9][0-9]*)
ParseNumber(s, i) ==
    LET neg == i <= Len(s) /\ s[i] = "-"
        j == IF neg THEN i + 1 ELSE i
    IN  IF j > Len(s) \/ s[j] \notin DigitChars THEN JFail
        ELSE IF s[j] = "0" THEN JOk(PyInt(0), j + 1)
        ELSE LET d == ScanDigits(s, j, 0)
             IN  JOk(PyInt(IF neg THEN 0 - d.val ELSE d.val), d.pos)

\* position of the closing quote of the string opened before i, 0 if none
RECURSIVE ScanString(_, _)
ScanString(s, i) ==
    IF i > Len(s) THEN 0
    ELSE IF s[i] = "\"" THEN i
    ELSE IF s[i] \in JsonCtl THEN 0
    ELSE ScanString(s, i + 1)

ParseString(s, i) ==
    IF i > Len(s) \/ s[i] # "\"" THEN JFail
    ELSE LET e == ScanString(s, i + 1)
         IN  IF e = 0 THEN JFail
             ELSE JOk(PyStr(SubSeq(s, i + 1, e - 1)), e + 1)

ParseWord(s, i, w, v) ==
    IF StartsWith(SubSeq(s, i, Len(s)), w) THEN JOk(v, i + Len(w)) ELSE JFail

RECURSIVE ParseValue(_, _)
RECURSIVE ParseMembers(_, _, _)

\* the members of an object after "{" or ",": "key" : value, then "," or "}"
ParseMembers(s, i, acc) ==
    LET key == ParseString(s, SkipWs(s, i))
    IN  IF ~key.ok THEN JFail
        ELSE LET c == SkipWs(s, key.pos)
             IN  IF c > Len(s) \/ s[c] # ":" THEN JFail
                 ELSE LET val == ParseValue(s, SkipWs(s, c + 1))
                      IN  IF ~val.ok THEN JFail
                          ELSE LET e == SkipWs(s, val.pos)
                                   d == (key.val.v :> val.val) @@ acc
                               IN  IF e > Len(s) THEN JFail
                                   ELSE IF s[e] = "}" THEN JOk(PyDict(d), e + 1)
                                   ELSE IF s[e] = "," THEN ParseMembers(s, e + 1, d)
                                   ELSE JFail

ParseValue(s, i) ==
    IF i > Len(s) THEN JFail
    ELSE IF s[i] = "{" THEN
        LET j == SkipWs(s, i + 1)
        IN  IF j <= Len(s) /\ s[j] = "}" THEN JOk(PyDict(EmptyMap), j + 1)
            ELSE ParseMembers(s, j, EmptyMap)
    ELSE IF s[i] = "\"" THEN ParseString(s, i)
    ELSE IF s[i] = "n" THEN ParseWord(s, i, <<"n", "u", "l", "l">>, PyNone)
    ELSE IF s[i] = "t" THEN ParseWord(s, i, <<"t", "r", "u", "e">>, PyBool(TRUE))
    ELSE IF s[i] = "f" THEN ParseWord(s, i, <<"f", "a", "l", "s", "e">>, PyBool(FALSE))
    ELSE ParseNumber(s, i)

\* json.loads(s): ok = FALSE stands for json.JSONDecodeError
JsonLoads(s) ==
    LET r == ParseValue(s, SkipWs(s, 1))
    IN  IF r.ok /\ SkipWs(s, r.pos) = Len(s) + 1 THEN r ELSE JFail

(***************************************************************************)
(* _stream_sse: the SSE parser                                             *)
(***************************************************************************)
EventPrefix == <<"e", "v", "e", "n", "t", ":">>
DataPrefix == <<"d", "a", "t", "a", ":">>

\* event_type = None, data_lines = [] on entry of the with block
ParserInit == [event_type |-> PyNone, data_lines |-> <<>>]

\* the SSEEvent built at a blank line: json.loads with the raw text as fallback
SSEEvent(event_type, data_lines) ==
    LET raw_data == JoinLines(data_lines)
        parsed == JsonLoads(raw_data)
    IN  [event |-> event_type,
         data |-> IF parsed.ok THEN parsed.val ELSE PyStr(raw_data),
         raw |-> raw_data]

\* Emit with a record whose data is no JSON dropped
EmitSkipBad(st) ==
    IF StrTruthy(st.event_type) /\ st.data_lines # <<>>
          /\ JsonLoads(JoinLines(st.data_lines)).ok
    THEN <<SSEEvent(st.event_type.v, st.data_lines)>>
    ELSE <<>>

\* Emit with no test of the data lines
EmitTypeOnly(st) ==
    IF StrTruthy(st.event_type)
    THEN <<SSEEvent(st.event_type.v, st.data_lines)>>
    ELSE <<>>

\* what a blank line yields: the events (none or one) of the pending record
Emit(st) ==
    IF StrTruthy(st.event_type) /\ st.data_lines # <<>>
    THEN <<SSEEvent(st.event_type.v, st.data_lines)>>
    ELSE <<>>

\* ParserStep with data_lines kept at a blank line
ParserStepNoReset(st, raw_line) ==
    LET line == RStripNewline(raw_line)
    IN  IF StartsWith(line, EventPrefix)
        THEN [st |-> [st EXCEPT !.event_type =
                         PyStr(Strip(SubSeq(line, 7, Len(line))))],
              out |-> <<>>]
        ELSE IF StartsWith(line, DataPrefix)
        THEN [st |-> [st EXCEPT !.data_lines =
                         Append(@, Strip(SubSeq(line, 6, Len(line))))],
              out |-> <<>>]
        ELSE IF line = <<>>
        THEN [st |-> [st EXCEPT !.event_type = PyNone], out |-> Emit(st)]
        ELSE [st |-> st, out |-> <<>>]

\* one iteration of `for raw_line in resp`: the new locals and the events yielded
ParserStep(st, raw_line) ==
    LET line == RStripNewline(raw_line)
    IN  IF StartsWith(line, EventPrefix)
        THEN [st |-> [st EXCEPT !.event_type =
                         PyStr(Strip(SubSeq(line, 7, Len(line))))],
              out |-> <<>>]
        ELSE IF StartsWith(line, DataPrefix)
        THEN [st |-> [st EXCEPT !.data_lines =
                         Append(@, Strip(SubSeq(line, 6, Len(line))))],
              out |-> <<>>]
        ELSE IF line = <<>>
        THEN [st |-> ParserInit, out |-> Emit(st)]
        ELSE [st |-> st, out |-> <<>>]

(***************************************************************************)
(* The wire format the chat service writes: per record one `event:` line,  *)
(* one `data:` line per payload line and a blank line.                     *)
(***************************************************************************)
EventLine(t) == EventPrefix \o <<" ">> \o t \o <<"\n">>
DataLine(l) == DataPrefix \o <<" ">> \o l \o <<"\n">>
BlankLine == <<"\n">>

RECURSIVE DataLinesOf(_)
DataLinesOf(ls) ==
    IF ls = <<>> THEN <<>> ELSE <<DataLine(Head(ls))>> \o DataLinesOf(Tail(ls))

EncodeRecord(r) == <<EventLine(r.type)>> \o DataLinesOf(r.lines) \o <<BlankLine>>

RECURSIVE EncodeAll(_)
EncodeAll(rs) ==
    IF rs = <<>> THEN <<>> ELSE EncodeRecord(Head(rs)) \o EncodeAll(Tail(rs))

(***************************************************************************)
(* Texts of the model                                                      *)
(***************************************************************************)
TMessage == <<"m", "e", "s", "s", "a", "g", "e">>
THeartbeat == <<"h", "e", "a", "r", "t", "b", "e", "a", "t">>
TTyping == <<"t", "y", "p", "i", "n", "g">>
KSeq == <<"s", "e", "q">>

Digit(n) ==
    CASE n = 0 -> "0" [] n = 1 -> "1" [] n = 2 -> "2" [] n = 3 -> "3"
      [] n = 4 -> "4" [] n = 5 -> "5" [] n = 6 -> "6" [] n = 7 -> "7"
      [] n = 8 -> "8" [] n = 9 -> "9"

\* the text {"seq":n} for n in 0..9
SeqJson(n) == <<"{", "\"", "s", "e", "q", "\"", ":", Digit(n), "}">>

\* a text that is no JSON
PlainText == <<"h", "i">>

\* the bound on the records of one parser run
MaxRecords == 2

\* event types: plain, padded with whitespace, empty
ParserTypes == {TMessage, <<" ", "m", " ">>, <<>>}

\* payloads: no line, JSON, text that is no JSON, padded and empty lines,
\* a JSON object spread over two lines
ParserPayloads ==
    { <<>>,
      <<SeqJson(1)>>,
      <<PlainText>>,
      <<<<" ", "x">>, <<>>>>,
      <<<<"{", "\"", "a", "\"", ":">>, <<"1", "}", " ">>>> }

ParserPairs == [type : ParserTypes, lines : ParserPayloads]

SeqsUpTo(S, n) == UNION {[1..m -> S] : m \in 0..n}

(***************************************************************************)
(* Specification SpecParser: _stream_sse run over an encoded wire          *)
(***************************************************************************)
ParserStart ==
    /\ p_pairs \in SeqsUpTo(ParserPairs, MaxRecords)
    /\ p_wire = EncodeAll(p_pairs)
    /\ p_state = ParserInit
    /\ p_out = <<>>

\* the generator reads the next line of the response
ParserReadLine ==
    /\ p_wire # <<>>
    /\ LET r == ParserStep(p_state, Head(p_wire))
       IN  /\ p_state' = r.st
           /\ p_out' = p_out \o r.out
    /\ p_wire' = Tail(p_wire)
    /\ UNCHANGED <<p_pairs, rqvars, evars, tvars, cachevars, rvars, svars>>

ParserIdle ==
    /\ p_pairs = <<>>
    /\ p_wire = <<>>
    /\ p_state = ParserInit
    /\ p_out = <<>>


(***************************************************************************)
(* Exceptions: the classes of agent_chat.py and those urllib, http.client  *)
(* and the socket layer raise, with their base classes                     *)
(***************************************************************************)
ExcBase(c) ==
    CASE c = "NotFoundError" -> "ChatError"
      [] c = "ConflictError" -> "ChatError"
      [] c = "RateLimitError" -> "ChatError"
      [] c = "AuthError" -> "ChatError"
      [] c = "ChatError" -> "Exception"
      [] c = "HTTPError" -> "URLError"
      [] c = "URLError" -> "OSError"
      [] c = "ConnectionResetError" -> "ConnectionError"
      [] c = "ConnectionAbortedError" -> "ConnectionError"
      [] c = "ConnectionError" -> "OSError"
      [] c = "TimeoutError" -> "OSError"
      [] c = "OSError" -> "Exception"
      [] c = "IncompleteRead" -> "HTTPException"
      [] c = "HTTPException" -> "Exception"
      [] c = "JSONDecodeError" -> "ValueError"
      [] c = "ValueError" -> "Exception"
      [] OTHER -> "Exception"

RECURSIVE IsSubclass(_, _)
IsSubclass(c, base) ==
    IF c = base THEN TRUE
    ELSE IF c = "Exception" THEN FALSE
    ELSE IsSubclass(ExcBase(c), base)

(***************************************************************************)
(* _request: one HTTP request/response cycle                               *)
(*   resp.net    "ok" when an HTTP response arrives (urlopen raises        *)
(*               HTTPError for a status outside 2xx), otherwise the class  *)
(*               urlopen() or resp.read() raises                           *)
(*   resp.status the HTTP status, resp.ctype the Content-Type header,      *)
(*   resp.body   the response body (text)                                  *)
(***************************************************************************)
Returned(v) == [kind |-> "return", val |-> v]
\* a ChatError (or subclass) instance
ChatErr(cls, msg, status_code, body) ==
    [kind |-> "raise", exc |-> cls, msg |-> msg,
     status_code |-> status_code, body |-> body]
RateLimitErr(retry_after, status_code, body) ==
    [kind |-> "raise", exc |-> "RateLimitError", msg |-> [fmt |-> "Rate limited"],
     retry_after |-> retry_after, status_code |-> status_code, body |-> body]
\* an exception of another class, passing through unchanged
Propagated(cls) == [kind |-> "raise", exc |-> cls]

KError == <<"e", "r", "r", "o", "r">>
KRetryAfterSecs ==
    <<"r", "e", "t", "r", "y", "_", "a", "f", "t", "e", "r", "_", "s", "e", "c", "s">>

\* d.get(key, default) on the value of a PyDict
DictGet(d, key, default) == IF key \in DOMAIN d.v THEN d.v[key] ELSE default

\* "json" in ct
CtHasJson(ct) == ct \in {"application/json", "application/json; charset=utf-8"}

\* body_json of the except branch: the decoded body, the body text otherwise
BodyJson(body) ==
    LET parsed == JsonLoads(body)
    IN  IF parsed.ok THEN parsed.val ELSE PyStr(body)

\* HttpErrorToChatError with 403 left out of the AuthError statuses
HttpErrorAuthOnly401(code, body) ==
    LET body_json == BodyJson(body)
    IN  IF code = 404
        THEN ChatErr("NotFoundError", [fmt |-> "Not found: {url}"], 404, body_json)
        ELSE IF code = 409
        THEN ChatErr("ConflictError", [fmt |-> "Conflict"], 409, body_json)
        ELSE IF code = 429
        THEN RateLimitErr(PyInt(0), 429, body_json)
        ELSE IF code = 401
        THEN ChatErr("AuthError", [fmt |-> "Auth required"], code, body_json)
        ELSE ChatErr("ChatError", [fmt |-> "HTTP {e.code}: {body_json}"],
                     code, body_json)

\* HttpErrorToChatError with retry_after left at its default
HttpErrorRetryDefault(code, body) ==
    LET body_json == BodyJson(body)
        isdict == body_json.k = "dict"
    IN  IF code = 404
        THEN ChatErr("NotFoundError", [fmt |-> "Not found: {url}"], 404, body_json)
        ELSE IF code = 409
        THEN ChatErr("ConflictError",
                     IF isdict THEN DictGet(body_json, KError, [fmt |-> "Conflict"])
                     ELSE [strof |-> body_json],
                     409, body_json)
        ELSE IF code = 429
        THEN RateLimitErr(PyInt(0), 429, body_json)
        ELSE IF code \in {401, 403}
        THEN ChatErr("AuthError",
                     IF isdict THEN DictGet(body_json, KError, [fmt |-> "Auth required"])
                     ELSE [strof |-> body_json],
                     code, body_json)
        ELSE ChatErr("ChatError", [fmt |-> "HTTP {e.code}: {body_json}"],
                     code, body_json)

\* the chain of tests on e.code of the except urllib.error.HTTPError branch,
\* given the body as parsed
ChatErrorOf(code, body_json) ==
    IF code = 404
    THEN ChatErr("NotFoundError", [fmt |-> "Not found: {url}"], 404, body_json)
    ELSE IF code = 409
    THEN ChatErr("ConflictError",
                 IF body_json.k = "dict"
                 THEN DictGet(body_json, KError, [fmt |-> "Conflict"])
                 ELSE [strof |-> body_json],
                 409, body_json)
    ELSE IF code = 429
    THEN RateLimitErr(IF body_json.k = "dict"
                      THEN DictGet(body_json, KRetryAfterSecs, PyInt(0))
                      ELSE PyInt(0),
                      429, body_json)
    ELSE IF code \in {401, 403}
    THEN ChatErr("AuthError",
                 IF body_json.k = "dict"
                 THEN DictGet(body_json, KError, [fmt |-> "Auth required"])
                 ELSE [strof |-> body_json],
                 code, body_json)
    ELSE ChatErr("ChatError", [fmt |-> "HTTP {e.code}: {body_json}"],
                 code, body_json)

\* the except urllib.error.HTTPError branch: the body is read and parsed once
HttpErrorToChatError(code, body) ==
    CHOOSE e \in {ChatErrorOf(code, body_json) : body_json \in {BodyJson(body)}} : TRUE

Request(resp, raw) ==
    IF resp.net = "ok" /\ resp.status >= 200 /\ resp.status < 300
    THEN IF raw THEN Returned([k |-> "bytes", v |-> resp.body])
         ELSE IF CtHasJson(resp.ctype)
         THEN IF resp.body # <<>>
              THEN CHOOSE r \in {IF parsed.ok THEN Returned(parsed.val)
                                  ELSE Propagated("JSONDecodeError") :
                                  parsed \in {JsonLoads(resp.body)}} : TRUE
              ELSE Returned(PyNone)
         ELSE Returned(PyStr(resp.body))
    ELSE IF resp.net = "ok"
    THEN HttpErrorToChatError(resp.status, resp.body)
    ELSE IF IsSubclass(resp.net, "URLError")
    THEN ChatErr("ChatError", [fmt |-> "Connection error: {e.reason}"], 0, PyNone)
    ELSE Propagated(resp.net)

(***************************************************************************)
(* Rooms: names, identifiers and the listing of the chat service           *)
(***************************************************************************)
Rep(c, n) == [i \in 1..n |-> c]
\* an identifier of the canonical shape 8-4-4-4-12
Uuid(c) ==
    Rep(c, 8) \o <<"-">> \o Rep(c, 4) \o <<"-">> \o Rep(c, 4) \o <<"-">>
        \o Rep(c, 4) \o <<"-">> \o Rep(c, 12)

NGeneral == <<"g", "e", "n", "e", "r", "a", "l">>
NLobby == <<"l", "o", "b", "b", "y">>
NGhost == <<"g", "h", "o", "s", "t">>
RoomNames == {NGeneral, NLobby, NGhost}
\* a room name of 36 characters with four "-", none at a position of an
\* identifier
NOddShape == Rep("x", 32) \o <<"-", "-", "-", "-">>

\* self.list_rooms(include_archived=True): the room dicts of the service on a
\* 200 answer, what _request raises otherwise
ListRooms(resp, rooms) ==
    IF resp.net = "ok" /\ resp.status = 200
    THEN Returned(rooms)
    ELSE Request(resp, FALSE)

\* for r in rooms: self._room_cache[r["name"]] = r["id"]
RECURSIVE FillCache(_, _)
FillCache(cache, rooms) ==
    IF rooms = <<>> THEN cache
    ELSE FillCache((Head(rooms).name :> Head(rooms).id) @@ cache, Tail(rooms))

\* the test of the first line of _resolve_room
LooksLikeUuid(room) == Len(room) = 36 /\ Count(room, "-") = 4

\* ResolveRoom without the cache lookup before the listing
ResolveRoomNoCache(cache, room, listing) ==
    IF LooksLikeUuid(room)
    THEN [cache |-> cache, out |-> Returned(room), listed |-> FALSE]
    ELSE IF listing.kind = "raise"
    THEN [cache |-> cache, out |-> listing, listed |-> TRUE]
    ELSE LET filled == FillCache(cache, listing.val)
         IN  IF room \in DOMAIN filled
             THEN [cache |-> filled, out |-> Returned(filled[room]), listed |-> TRUE]
             ELSE [cache |-> filled,
                   out |-> ChatErr("NotFoundError", [fmt |-> "Room '{room}' not found"],
                                   0, PyNone),
                   listed |-> TRUE]

\* _resolve_room(room), given the outcome `listing` the listing request would
\* have: the cache after it, its outcome, and whether it sent the listing request
ResolveRoom(cache, room, listing) ==
    IF LooksLikeUuid(room)
    THEN [cache |-> cache, out |-> Returned(room), listed |-> FALSE]
    ELSE IF room \in DOMAIN cache
    THEN [cache |-> cache, out |-> Returned(cache[room]), listed |-> FALSE]
    ELSE IF listing.kind = "raise"
    THEN [cache |-> cache, out |-> listing, listed |-> TRUE]
    ELSE LET filled == FillCache(cache, listing.val)
         IN  IF room \in DOMAIN filled
             THEN [cache |-> filled, out |-> Returned(filled[room]), listed |-> TRUE]
             ELSE [cache |-> filled,
                   out |-> ChatErr("NotFoundError", [fmt |-> "Room '{room}' not found"],
                                   0, PyNone),
                   listed |-> TRUE]

(***************************************************************************)
(* stream_reconnecting: the reconnecting controller                        *)
(***************************************************************************)
\* backoff = 1.0
InitialBackoff == 1
\* max_backoff: float = 30.0
DefaultMaxBackoff == 30

Min(a, b) == IF a < b THEN a ELSE b

\* except (ChatError, urllib.error.URLError, ConnectionResetError, TimeoutError)
CaughtClasses == {"ChatError", "URLError", "ConnectionResetError", "TimeoutError"}
Caught(e) == \E c \in CaughtClasses : IsSubclass(e, c)

\* OnEvent with the cursor never moved
OnEventNoTrack(cursor, event) ==
    IF event.event = THeartbeat
    THEN [backoff |-> InitialBackoff, last_seq |-> cursor, out |-> <<>>]
    ELSE [backoff |-> InitialBackoff, last_seq |-> cursor, out |-> <<event>>]

\* OnEvent with heartbeats yielded like any event
OnEventYieldAll(cursor, event) ==
    IF event.data.k = "dict" /\ KSeq \in DOMAIN event.data.v
    THEN [backoff |-> InitialBackoff, last_seq |-> event.data.v[KSeq],
          out |-> <<event>>]
    ELSE [backoff |-> InitialBackoff, last_seq |-> cursor, out |-> <<event>>]

\* the body of `for event in self.stream(...)` for one event: the new backoff
\* and last_seq, and the events yielded to the consumer
OnEvent(cursor, event) ==
    IF event.event = THeartbeat
    THEN [backoff |-> InitialBackoff, last_seq |-> cursor, out |-> <<>>]
    ELSE IF event.data.k = "dict" /\ KSeq \in DOMAIN event.data.v
    THEN [backoff |-> InitialBackoff, last_seq |-> event.data.v[KSeq],
          out |-> <<event>>]
    ELSE [backoff |-> InitialBackoff, last_seq |-> cursor, out |-> <<event>>]

\* NextBackoff without the ceiling
NextBackoffUncapped(b, max_backoff) == b * 2

\* backoff = min(backoff * 2, max_backoff)
NextBackoff(b, max_backoff) == Min(b * 2, max_backoff)

\* AfterParam with `if after:` as the test
AfterParamTruthy(after) ==
    IF after = PyNone \/ after = PyInt(0) \/ after = PyStr(<<>>)
    THEN [sent |-> FALSE] ELSE [sent |-> TRUE, val |-> after]

\* the query of stream(): `after` is sent unless it is None
AfterParam(after) ==
    IF after = PyNone THEN [sent |-> FALSE] ELSE [sent |-> TRUE, val |-> after]

(***************************************************************************)
(* Specification SpecRequest: _request against the responses of a server   *)
(***************************************************************************)
BErrorDup == <<"{", "\"", "e", "r", "r", "o", "r", "\"", ":", "\"", "d", "u", "p", "\"", "}">>
BRetry == <<"{", "\"", "r", "e", "t", "r", "y", "_", "a", "f", "t", "e", "r", "_", "s", "e", "c", "s", "\"", ":", "2", "}">>
BText == <<"o", "o", "p", "s">>
BNumber == <<"5">>
BEmptyObject == <<"{", "}">>
RequestBodies == {<<>>, BErrorDup, BRetry, BText, BNumber, BEmptyObject}

HttpStatuses == {200, 204, 304, 400, 401, 403, 404, 409, 418, 429, 500, 503}
ContentTypes == {"application/json", "text/plain"}
\* what urlopen() or resp.read() raise when no HTTP response arrives
NetFailures == {"URLError", "TimeoutError", "ConnectionResetError"}

HttpResponses ==
    [net : {"ok"}, status : HttpStatuses, ctype : ContentTypes, body : RequestBodies]
FailedResponses == [net : NetFailures, status : {0}, ctype : {""}, body : {<<>>}]
Responses == HttpResponses \cup FailedResponses

RequestIdle ==
    /\ rq_in = PyNone
    /\ rq_out = PyNone

DoRequest ==
    /\ \E resp \in Responses, raw \in BOOLEAN :
          /\ rq_in' = [resp |-> resp, raw |-> raw]
          /\ rq_out' = Request(resp, raw)
    /\ UNCHANGED <<pvars, cachevars, rvars, svars, tvars, evars>>

(***************************************************************************)
(* Specification SpecResolver: one client resolving room references while  *)
(* rooms are created, renamed and deleted on the service                   *)
(***************************************************************************)
\* the bound on the operations of one run
MaxOps == 4

RoomRefs == RoomNames \cup {Uuid("a"), Uuid("z"), NOddShape}
\* the names create_room is called with
CreateNames == RoomNames \cup {NOddShape}

\* the answers a listing or a create request may get
OkResponse == [net |-> "ok", status |-> 200, ctype |-> "application/json", body |-> <<>>]
ErrResponse(status) ==
    [net |-> "ok", status |-> status, ctype |-> "application/json", body |-> <<>>]
NetResponse(cls) == [net |-> cls, status |-> 0, ctype |-> "", body |-> <<>>]
ListingResponses == {OkResponse, ErrResponse(500), NetResponse("URLError")}

\* the rooms a listing shows: those not deleted
Live(rooms) == SelectSeq(rooms, LAMBDA r : ~r.gone)
Listing(rooms) == [i \in 1..Len(Live(rooms)) |->
                      [name |-> Live(rooms)[i].name, id |-> Live(rooms)[i].id]]
LiveNames(rooms) == {Live(rooms)[i].name : i \in 1..Len(Live(rooms))}
IdOfName(rooms, n) ==
    Live(rooms)[CHOOSE i \in 1..Len(Live(rooms)) : Live(rooms)[i].name = n].id
\* the identifiers the service hands out, in order
IdOrder == <<Uuid("a"), Uuid("b"), Uuid("c"), Uuid("d"), Uuid("e")>>

CacheIdle ==
    /\ room_cache = EmptyMap
    /\ srv_rooms = <<[name |-> NGeneral, id |-> IdOrder[1], gone |-> FALSE]>>
    /\ listings = 0

\* the record of a call that is not a create_room, update_room, delete_room
\* or archive_room
NoPrev ==
    [op |-> "none", ok |-> FALSE, room |-> <<>>, id |-> <<>>, replaced |-> FALSE,
     ref |-> <<>>]
\* what the last call of the client was, for the call that follows it: `room`
\* is the name the room has after it, `ref` the room argument of the call
PrevOf(last) ==
    IF last.op \in {"create", "update", "delete", "archive"}
    THEN [op |-> last.op, ok |-> last.out.kind = "return",
          room |-> last.name, id |-> last.id,
          replaced |-> last.op = "create" /\ last.out.kind = "return"
                       /\ last.name \in DOMAIN last.before
                       /\ last.before[last.name] # last.id,
          ref |-> IF last.op = "create" THEN last.name ELSE last.ref]
    ELSE NoPrev

ResolverIdle ==
    /\ r_last = [op |-> "none"]
    /\ r_resolved = {}
    /\ r_ops = 0

\* a one-shot call that resolves `room`, e.g. get_room(room), up to the
\* return of _resolve_room
Resolve ==
    /\ r_ops < MaxOps
    /\ \E room \in RoomRefs, resp \in ListingResponses :
          \E l \in {ListRooms(resp, Listing(srv_rooms))} :
          \E r \in {ResolveRoom(room_cache, room, l)} :
              /\ room_cache' = r.cache
              /\ listings' = listings + (IF r.listed THEN 1 ELSE 0)
              /\ r_last' = [op |-> "resolve", room |-> room, out |-> r.out,
                            listed |-> r.listed,
                            known |-> room \in r_resolved,
                            fresh |-> room_cache = EmptyMap,
                            served |-> resp = OkResponse
                                       /\ room \in LiveNames(srv_rooms),
                            srv_id |-> IF room \in LiveNames(srv_rooms)
                                       THEN IdOfName(srv_rooms, room) ELSE <<>>,
                            listing_ok |-> resp = OkResponse,
                            snapshot |-> Listing(srv_rooms),
                            prev |-> PrevOf(r_last)]
              /\ r_resolved' = IF r.out.kind = "return"
                               THEN r_resolved \cup {room} ELSE r_resolved
    /\ r_ops' = r_ops + 1
    /\ UNCHANGED <<srv_rooms, pvars, rqvars, evars, tvars, svars>>

\* the answers a create or an update request may get
RoomResponses == {OkResponse, ErrResponse(500)}

\* the answer of the service to POST /api/v1/rooms: the new room, or 409 when
\* a room of that name exists
CreateAnswer(resp, rooms, name) ==
    IF resp = OkResponse /\ name \notin LiveNames(rooms)
    THEN Returned([name |-> name, id |-> IdOrder[Len(rooms) + 1]])
    ELSE Request(IF resp = OkResponse THEN ErrResponse(409) ELSE resp, FALSE)

\* create_room without the insertion into the cache
CreateRoomNoInsert(cache, name, result) ==
    [cache |-> cache, out |-> result]

\* create_room(name), given the outcome `result` of the POST: the cache after
\* it and its outcome
CreateRoom(cache, name, result) ==
    IF result.kind = "raise"
    THEN [cache |-> cache, out |-> result]
    ELSE [cache |-> (name :> result.val.id) @@ cache, out |-> result]

\* the client calls create_room(name)
ClientCreate ==
    /\ r_ops < MaxOps
    /\ Len(srv_rooms) < Len(IdOrder)
    /\ \E name \in CreateNames, resp \in RoomResponses :
          \E a \in {CreateAnswer(resp, srv_rooms, name)} :
          \E c \in {CreateRoom(room_cache, name, a)} :
              /\ room_cache' = c.cache
              /\ srv_rooms' = IF c.out.kind = "return"
                              THEN Append(srv_rooms, [name |-> name, id |-> c.out.val.id,
                                                      gone |-> FALSE])
                              ELSE srv_rooms
              /\ r_last' = [op |-> "create", name |-> name, out |-> c.out,
                            id |-> IF c.out.kind = "return" THEN c.out.val.id ELSE <<>>,
                            before |-> room_cache]
    /\ r_ops' = r_ops + 1
    /\ UNCHANGED <<listings, r_resolved, pvars, rqvars, evars, tvars, svars>>

\* the answer of the service to PUT /api/v1/rooms/{room_id} with a new name:
\* 404 when no such room, 409 when another room has the name
UpdateAnswer(resp, rooms, room_id, name) ==
    LET missing == \A i \in 1..Len(rooms) : rooms[i].gone \/ rooms[i].id # room_id
        taken == \E i \in 1..Len(rooms) :
                    ~rooms[i].gone /\ rooms[i].id # room_id /\ rooms[i].name = name
    IN  IF resp = OkResponse /\ ~missing /\ ~taken
        THEN Returned([name |-> name, id |-> room_id])
        ELSE Request(IF resp # OkResponse THEN resp
                     ELSE IF missing THEN ErrResponse(404) ELSE ErrResponse(409),
                     FALSE)

\* the rooms of the service after the room room_id got the name `name`
Renamed(rooms, room_id, name) ==
    [i \in 1..Len(rooms) |->
        IF rooms[i].id = room_id THEN [rooms[i] EXCEPT !.name = name] ELSE rooms[i]]

\* the client calls update_room(room, admin_key, name=name)
ClientUpdate ==
    /\ r_ops < MaxOps
    /\ \E room \in RoomNames, name \in RoomNames,
          resp \in RoomResponses, put \in RoomResponses :
          \E l \in {ListRooms(resp, Listing(srv_rooms))} :
          \E r \in {ResolveRoom(room_cache, room, l)} :
              /\ room_cache' = r.cache
              /\ listings' = listings + (IF r.listed THEN 1 ELSE 0)
              /\ IF r.out.kind = "raise"
                 THEN /\ srv_rooms' = srv_rooms
                      /\ r_last' = [op |-> "update", name |-> name, out |-> r.out,
                                    id |-> <<>>, ref |-> room]
                 ELSE \E u \in {UpdateAnswer(put, srv_rooms, r.out.val, name)} :
                      /\ srv_rooms' = IF u.kind = "return"
                                      THEN Renamed(srv_rooms, r.out.val, name)
                                      ELSE srv_rooms
                      /\ r_last' = [op |-> "update", name |-> name, out |-> u,
                                    id |-> r.out.val, ref |-> room]
              /\ r_resolved' = IF r.out.kind = "return"
                               THEN r_resolved \cup {room} ELSE r_resolved
    /\ r_ops' = r_ops + 1
    /\ UNCHANGED <<pvars, rqvars, evars, tvars, svars>>

\* the answer of the service to DELETE /api/v1/rooms/{room_id} and to
\* POST /api/v1/rooms/{room_id}/archive: 404 when no such room
AdminAnswer(resp, rooms, room_id) ==
    LET missing == \A i \in 1..Len(rooms) : rooms[i].gone \/ rooms[i].id # room_id
    IN  IF resp = OkResponse /\ ~missing
        THEN Returned(PyNone)
        ELSE Request(IF resp # OkResponse THEN resp ELSE ErrResponse(404), FALSE)

\* the rooms of the service after the room room_id was deleted
Deleted(rooms, room_id) ==
    [i \in 1..Len(rooms) |->
        IF rooms[i].id = room_id THEN [rooms[i] EXCEPT !.gone = TRUE] ELSE rooms[i]]

\* a delete_room that drops the name from the cache when the service answers
DeleteRoomEvict(cache, room, result) ==
    IF result.kind = "return"
    THEN [cache |-> [n \in DOMAIN cache \ {room} |-> cache[n]], out |-> result]
    ELSE [cache |-> cache, out |-> result]

\* delete_room(room, admin_key) and archive_room(room, admin_key) after
\* _resolve_room, given the outcome `result` of the request: the cache after
\* the call and its outcome
DeleteRoom(cache, room, result) == [cache |-> cache, out |-> result]
ArchiveRoom(cache, room, result) == [cache |-> cache, out |-> result]

\* the client calls delete_room(room, admin_key)
ClientDelete ==
    /\ r_ops < MaxOps
    /\ \E room \in RoomNames, resp \in RoomResponses, del \in RoomResponses :
          \E l \in {ListRooms(resp, Listing(srv_rooms))} :
          \E r \in {ResolveRoom(room_cache, room, l)} :
              /\ listings' = listings + (IF r.listed THEN 1 ELSE 0)
              /\ IF r.out.kind = "raise"
                 THEN /\ room_cache' = r.cache
                      /\ srv_rooms' = srv_rooms
                      /\ r_last' = [op |-> "delete", name |-> room, out |-> r.out,
                                    id |-> <<>>, ref |-> room]
                 ELSE \E a \in {AdminAnswer(del, srv_rooms, r.out.val)} :
                      \E d \in {DeleteRoom(r.cache, room, a)} :
                      /\ room_cache' = d.cache
                      /\ srv_rooms' = IF d.out.kind = "return"
                                      THEN Deleted(srv_rooms, r.out.val)
                                      ELSE srv_rooms
                      /\ r_last' = [op |-> "delete", name |-> room, out |-> d.out,
                                    id |-> r.out.val, ref |-> room]
              /\ r_resolved' = IF r.out.kind = "return"
                               THEN r_resolved \cup {room} ELSE r_resolved
    /\ r_ops' = r_ops + 1
    /\ UNCHANGED <<pvars, rqvars, evars, tvars, svars>>

\* the client calls archive_room(room, admin_key); an archived room stays in
\* the listing of include_archived=true
ClientArchive ==
    /\ r_ops < MaxOps
    /\ \E room \in RoomNames, resp \in RoomResponses, arch \in RoomResponses :
          \E l \in {ListRooms(resp, Listing(srv_rooms))} :
          \E r \in {ResolveRoom(room_cache, room, l)} :
              /\ listings' = listings + (IF r.listed THEN 1 ELSE 0)
              /\ IF r.out.kind = "raise"
                 THEN /\ room_cache' = r.cache
                      /\ r_last' = [op |-> "archive", name |-> room, out |-> r.out,
                                    id |-> <<>>, ref |-> room]
                 ELSE \E a \in {AdminAnswer(arch, srv_rooms, r.out.val)} :
                      \E d \in {ArchiveRoom(r.cache, room, a)} :
                      /\ room_cache' = d.cache
                      /\ r_last' = [op |-> "archive", name |-> room, out |-> d.out,
                                    id |-> r.out.val, ref |-> room]
              /\ r_resolved' = IF r.out.kind = "return"
                               THEN r_resolved \cup {room} ELSE r_resolved
    /\ r_ops' = r_ops + 1
    /\ UNCHANGED <<srv_rooms, pvars, rqvars, evars, tvars, svars>>

\* another client creates a room
SrvCreate ==
    /\ r_ops < MaxOps
    /\ Len(srv_rooms) < Len(IdOrder)
    /\ \E name \in RoomNames \ LiveNames(srv_rooms) :
          srv_rooms' = Append(srv_rooms,
              [name |-> name, id |-> IdOrder[Len(srv_rooms) + 1], gone |-> FALSE])
    /\ r_ops' = r_ops + 1
    /\ UNCHANGED <<room_cache, listings, r_last, r_resolved, pvars, rqvars, evars, tvars, svars>>

\* a room is renamed on the service
SrvRename ==
    /\ r_ops < MaxOps
    /\ \E i \in 1..Len(srv_rooms), name \in RoomNames \ LiveNames(srv_rooms) :
          /\ ~srv_rooms[i].gone
          /\ srv_rooms' = [srv_rooms EXCEPT ![i].name = name]
    /\ r_ops' = r_ops + 1
    /\ UNCHANGED <<room_cache, listings, r_last, r_resolved, pvars, rqvars, evars, tvars, svars>>

\* a room is deleted on the service
SrvDelete ==
    /\ r_ops < MaxOps
    /\ \E i \in 1..Len(srv_rooms) :
          /\ ~srv_rooms[i].gone
          /\ srv_rooms' = [srv_rooms EXCEPT ![i].gone = TRUE]
    /\ r_ops' = r_ops + 1
    /\ UNCHANGED <<room_cache, listings, r_last, r_resolved, pvars, rqvars, evars, tvars, svars>>

(***************************************************************************)
(* Specification SpecStream: stream_reconnecting against the service.      *)
(* The service keeps a log of events with seq 1, 2, ...; in mode "log" a   *)
(* connection replays the log events with seq greater than `after` (the    *)
(* whole log when `after` is absent), in seq order, among heartbeats and   *)
(* events that are not logged; in mode "any" it sends any records.         *)
(***************************************************************************)
\* bounds: connection attempts, length of the log, records besides the log
MaxAttempts == 3
LogLen == 2
MaxExtras == 2

Log == [i \in 1..LogLen |-> [type |-> TMessage, lines |-> <<SeqJson(i)>>]]
RHeartbeat == [type |-> THeartbeat, lines |-> <<BEmptyObject>>]
RTyping == [type |-> TTyping, lines |-> <<BEmptyObject>>]
RText == [type |-> TMessage, lines |-> <<BText>>]
ExtraRecords == {RHeartbeat, RTyping}
AnyRecords == {Log[1], Log[2], RHeartbeat, RText}
\* a heartbeat whose payload carries a seq
RHeartbeatSeq == [type |-> THeartbeat, lines |-> <<SeqJson(2)>>]
\* events whose seq is 0, null, a string
SeqNullJson == <<"{", "\"", "s", "e", "q", "\"", ":", "n", "u", "l", "l", "}">>
SeqTextJson == <<"{", "\"", "s", "e", "q", "\"", ":", "\"", "x", "\"", "}">>
RSeqZero == [type |-> TMessage, lines |-> <<SeqJson(0)>>]
RSeqNull == [type |-> TMessage, lines |-> <<SeqNullJson>>]
RSeqText == [type |-> TMessage, lines |-> <<SeqTextJson>>]
BeatRecords == {Log[1], RHeartbeatSeq, RSeqZero, RSeqNull, RSeqText}

StreamRooms == {NGeneral, NGhost}
MaxBackoffs == {0, 3, DefaultMaxBackoff}

\* what urlopen() raises when the stream cannot be opened
OpenFailures == {"URLError", "HTTPError", "ConnectionResetError", "TimeoutError"}
\* what reading the next line of the response raises when the connection fails
ReadFailures ==
    {"ConnectionResetError", "TimeoutError", "ConnectionAbortedError", "IncompleteRead"}

\* the log index a connection starts at
ServerStart(after) ==
    IF after.sent /\ after.val.k = "int" THEN after.val.v + 1 ELSE 1

\* the numeric seq an event moves the cursor to, PyNone if it does not
TrackedSeq(ev) ==
    IF /\ ev.event # THeartbeat
       /\ ev.data.k = "dict"
       /\ KSeq \in DOMAIN ev.data.v
       /\ ev.data.v[KSeq].k = "int"
    THEN ev.data.v[KSeq]
    ELSE PyNone
PyMax(a, b) ==
    IF a = PyNone THEN b
    ELSE IF b = PyNone THEN a
    ELSE IF a.v < b.v THEN b ELSE a

StreamIdle ==
    /\ s_room = <<>>
    /\ s_max_backoff = 0
    /\ pc = "idle"
    /\ last_seq = PyNone
    /\ backoff = InitialBackoff
    /\ parser = ParserInit
    /\ exc = ""
    /\ wire = <<>>
    /\ srv_mode = "log"
    /\ srv_pos = 1
    /\ extras = 0
    /\ attempts = 0
    /\ after_sent = [sent |-> FALSE]
    /\ produced = <<>>
    /\ yielded = <<>>
    /\ sleep_dur = 0
    /\ escalated = FALSE
    /\ fails = 0
    /\ cut = FALSE
    /\ max_seen = PyNone
    /\ slept = FALSE
    /\ open_conns = {}
    /\ at_yield = FALSE

\* stream_reconnecting(room, max_backoff=...) is called and first pulled
StartIn(modes) ==
    /\ s_room \in StreamRooms
    /\ s_max_backoff \in MaxBackoffs
    /\ srv_mode \in modes
    /\ pc = "connecting"
    /\ last_seq = PyNone
    /\ backoff = InitialBackoff
    /\ parser = ParserInit
    /\ exc = ""
    /\ wire = <<>>
    /\ srv_pos = 1
    /\ extras = 0
    /\ attempts = 0
    /\ after_sent = [sent |-> FALSE]
    /\ produced = <<>>
    /\ yielded = <<>>
    /\ sleep_dur = 0
    /\ escalated = FALSE
    /\ fails = 0
    /\ cut = FALSE
    /\ max_seen = PyNone
    /\ slept = FALSE
    /\ open_conns = {}
    /\ at_yield = FALSE

StreamStart == StartIn({"log", "any"})

\* `with urllib.request.urlopen(...) as resp:` is entered by attempt n: the
\* response handle is open
EnterWith(conns, n) == conns \cup {[n |-> n, by |-> "with"]}
\* the with block of attempt n is left, by the end of the loop, by an
\* exception or by the generator being closed: resp.close().  ExitWithLeak
\* is a with block that does not close the response.
ExitWithLeak(conns, n) == conns
ExitWith(conns, n) == conns \ {[n |-> n, by |-> "with"]}
\* urlopen of attempt n fails with e: an HTTPError wraps the open response of
\* the service and holds it as long as the exception lives
OpenFailed(conns, n, e) ==
    IF e = "HTTPError" THEN conns \cup {[n |-> n, by |-> "error"]} ELSE conns
\* the except clause ends: `e` is dropped, and the response it holds with it
ExceptEnds(conns) == {c \in conns : c.by # "error"}

\* an exception of class e reaches the try statement of the loop: the except
\* clause catches it and sleeps, or it propagates to the consumer
Raise(e) ==
    IF Caught(e)
    THEN /\ pc' = "sleeping"
         /\ sleep_dur' = backoff
         /\ escalated' = (escalated \/ backoff > InitialBackoff)
         /\ fails' = fails + 1
         /\ exc' = exc
    ELSE /\ pc' = "raised"
         /\ exc' = e
         /\ UNCHANGED <<sleep_dur, escalated, fails>>

\* the parser state of a new call of _stream_sse, whatever the state `old` the
\* generator of the connection before was left in.  NewParserKeep carries
\* the pending type and data lines over.
NewParserKeep(old) == old
NewParser(old) == ParserInit

\* self.stream(room, after=last_seq): resolve the room, open the connection
Connect ==
    /\ pc = "connecting"
    /\ attempts < MaxAttempts
    /\ attempts' = attempts + 1
    /\ \E resp \in ListingResponses, open \in {"ok"} \cup OpenFailures :
          \E l \in {ListRooms(resp, Listing(srv_rooms))} :
          \E r \in {ResolveRoom(room_cache, s_room, l)} :
              /\ room_cache' = r.cache
              /\ listings' = listings + (IF r.listed THEN 1 ELSE 0)
              /\ IF r.out.kind = "raise"
                 THEN /\ Raise(r.out.exc)
                      /\ UNCHANGED <<after_sent, srv_pos, open_conns>>
                 ELSE /\ after_sent' = AfterParam(last_seq)
                      /\ IF open = "ok"
                         THEN /\ pc' = "streaming"
                              /\ srv_pos' = ServerStart(AfterParam(last_seq))
                              /\ open_conns' = EnterWith(open_conns, attempts + 1)
                              /\ UNCHANGED <<exc, sleep_dur, escalated, fails>>
                         ELSE /\ Raise(open)
                              /\ open_conns' =
                                    OpenFailed(open_conns, attempts + 1, open)
                              /\ UNCHANGED srv_pos
    /\ parser' = NewParser(parser)
    /\ wire' = <<>>
    /\ slept' = FALSE
    /\ at_yield' = FALSE
    /\ UNCHANGED <<s_room, s_max_backoff, last_seq, backoff, srv_mode, extras,
                   produced, yielded, cut, max_seen, srv_rooms, pvars, rqvars, evars, rvars, tvars>>

\* the service writes the next log event of the connection
ServerSendLog ==
    /\ pc = "streaming"
    /\ srv_mode = "log"
    /\ wire = <<>>
    /\ srv_pos <= LogLen
    /\ wire' = EncodeRecord(Log[srv_pos])
    /\ srv_pos' = srv_pos + 1
    /\ UNCHANGED <<open_conns, at_yield,
                   slept, s_room, s_max_backoff, pc, last_seq, backoff, parser, exc,
                   srv_mode, extras, attempts, after_sent, produced, yielded,
                   sleep_dur, escalated, fails, cut, max_seen, cachevars, pvars, tvars, rqvars, evars,
                   rvars>>

\* the service writes a heartbeat or an event that is not logged; in mode
\* "any", any record
ServerSendExtra ==
    /\ pc = "streaming"
    /\ wire = <<>>
    /\ extras < MaxExtras
    /\ \E rec \in (IF srv_mode = "log" THEN ExtraRecords
                    ELSE IF srv_mode = "any" THEN AnyRecords ELSE BeatRecords) :
          wire' = EncodeRecord(rec)
    /\ extras' = extras + 1
    /\ UNCHANGED <<open_conns, at_yield,
                   slept, s_room, s_max_backoff, pc, last_seq, backoff, parser, exc,
                   srv_mode, srv_pos, attempts, after_sent, produced, yielded,
                   sleep_dur, escalated, fails, cut, max_seen, cachevars, pvars, tvars, rqvars, evars,
                   rvars>>

\* the generators run until the next line is read: _stream_sse parses it and,
\* at an event, the loop body of stream_reconnecting runs up to its yield
ReadLine ==
    /\ pc = "streaming"
    /\ wire # <<>>
    /\ \E r \in {ParserStep(parser, Head(wire))} :
           /\ parser' = r.st
           /\ produced' = produced \o r.out
           /\ IF r.out = <<>>
              THEN /\ at_yield' = FALSE
                   /\ UNCHANGED <<backoff, last_seq, yielded, fails, max_seen>>
              ELSE \E o \in {OnEvent(last_seq, r.out[1])} :
                       /\ backoff' = o.backoff
                       /\ last_seq' = o.last_seq
                       /\ yielded' = yielded \o o.out
                       /\ at_yield' = (o.out # <<>>)
                       /\ fails' = 0
                       /\ max_seen' = PyMax(max_seen, TrackedSeq(r.out[1]))
    /\ wire' = Tail(wire)
    /\ UNCHANGED <<open_conns, slept, s_room, s_max_backoff, pc, exc, srv_mode, srv_pos, extras,
                   attempts, after_sent, sleep_dur, escalated, cut, cachevars, pvars,
                   rqvars, evars, rvars, tvars>>

\* the connection is inside a record: lines of it are unread or pending
InRecord == wire # <<>> \/ parser # ParserInit

\* the connection fails while the next line is read; the lines not read are lost
ReadFail ==
    /\ pc = "streaming"
    /\ \E e \in ReadFailures : Raise(e)
    /\ open_conns' = ExitWith(open_conns, attempts)
    /\ at_yield' = FALSE
    /\ wire' = <<>>
    /\ cut' = (cut \/ InRecord)
    /\ UNCHANGED <<slept, s_room, s_max_backoff, last_seq, backoff, parser, srv_mode,
                   srv_pos, extras, attempts, after_sent, produced, yielded,
                   max_seen, cachevars, pvars, rqvars, evars, rvars, tvars>>

\* the response ends: the for loop ends and the while loop starts over
EndOfStream ==
    /\ pc = "streaming"
    /\ pc' = "connecting"
    /\ open_conns' = ExitWith(open_conns, attempts)
    /\ at_yield' = FALSE
    /\ wire' = <<>>
    /\ cut' = (cut \/ InRecord)
    /\ UNCHANGED <<slept, s_room, s_max_backoff, last_seq, backoff, parser, exc, srv_mode,
                   srv_pos, extras, attempts, after_sent, produced, yielded,
                   sleep_dur, escalated, fails, max_seen, cachevars, pvars, tvars, rqvars, evars,
                   rvars>>

\* time.sleep(backoff) returns: the backoff doubles up to max_backoff; the
\* except clause ends and drops the exception, and with it the response an
\* HTTPError holds
Wake ==
    /\ pc = "sleeping"
    /\ backoff' = NextBackoff(backoff, s_max_backoff)
    /\ pc' = "connecting"
    /\ slept' = TRUE
    /\ open_conns' = ExceptEnds(open_conns)
    /\ UNCHANGED <<at_yield, s_room, s_max_backoff, last_seq, parser, exc, wire, srv_mode,
                   srv_pos, extras, attempts, after_sent, produced, yielded,
                   sleep_dur, escalated, fails, cut, max_seen, cachevars, pvars, tvars, rqvars, evars,
                   rvars>>

\* the consumer stops pulling and closes the iterator: GeneratorExit is
\* raised at the yield of stream_reconnecting, the for loop drops the
\* generator of self.stream, which is closed in turn, and the with block of
\* _stream_sse is left
Close ==
    /\ pc = "streaming"
    /\ at_yield
    /\ pc' = "closed"
    /\ open_conns' = ExitWith(open_conns, attempts)
    /\ at_yield' = FALSE
    /\ wire' = <<>>
    /\ cut' = (cut \/ InRecord)
    /\ UNCHANGED <<slept, s_room, s_max_backoff, last_seq, backoff, parser, exc,
                   srv_mode, srv_pos, extras, attempts, after_sent, produced,
                   yielded, sleep_dur, escalated, fails, max_seen, cachevars, pvars,
                   rqvars, evars, rvars, tvars>>

(***************************************************************************)
(* Specification SpecThreads: threads that share one client.  The client   *)
(* holds no lock: a thread may be switched out between any two of its      *)
(* statements, so a request, each assignment to the cache dictionary and   *)
(* each lookup in it are steps of their own.                               *)
(***************************************************************************)
Threads == {"t1", "t2"}

IdleThread ==
    [pc |-> "idle", room |-> <<>>, rooms |-> <<>>, idx |-> 0, stamp |-> 0,
     id |-> <<>>, saw |-> FALSE]

ThreadsIdle ==
    /\ th = [t \in Threads |-> IdleThread]
    /\ cache_stamp = EmptyMap
    /\ clock = 0

\* thread u is inside the for loop of _resolve_room: it has written some
\* pair of its listing and the cache lacks a later one
Partial(u) ==
    /\ th[u].pc = "filling"
    /\ th[u].idx > 1
    /\ \E j \in th[u].idx..Len(th[u].rooms) :
          \/ th[u].rooms[j].name \notin DOMAIN room_cache
          \/ room_cache[th[u].rooms[j].name] # th[u].rooms[j].id

\* thread t looks a name up in the cache: what it has seen so far
Looked(t) == th[t].saw \/ \E u \in Threads \ {t} : Partial(u)

\* the call of thread t is over
Back(t, saw) == [IdleThread EXCEPT !.saw = saw]

\* thread t calls _resolve_room(room): the test for an id, the cache lookup
ThreadResolve(t) ==
    /\ th[t].pc = "idle"
    /\ r_ops < MaxOps
    /\ \E room \in RoomNames :
          th' = [th EXCEPT ![t] =
                    IF LooksLikeUuid(room)
                    THEN Back(t, th[t].saw)
                    ELSE IF room \in DOMAIN room_cache
                    THEN Back(t, Looked(t))
                    ELSE [IdleThread EXCEPT !.pc = "listing", !.room = room,
                                            !.saw = Looked(t)]]
    /\ r_ops' = r_ops + 1
    /\ UNCHANGED <<cache_stamp, clock, cachevars, r_last, r_resolved, pvars, rqvars, evars,
                   svars>>

\* the listing request of thread t is answered
ThreadListed(t) ==
    /\ th[t].pc = "listing"
    /\ \E resp \in ListingResponses :
          \E l \in {ListRooms(resp, Listing(srv_rooms))} :
              th' = [th EXCEPT ![t] =
                        IF l.kind = "raise"
                        THEN Back(t, th[t].saw)
                        ELSE [@ EXCEPT !.pc = "filling", !.rooms = l.val, !.idx = 1,
                                       !.stamp = clock + 1]]
    /\ listings' = listings + 1
    /\ clock' = clock + 1
    /\ UNCHANGED <<cache_stamp, room_cache, srv_rooms, rvars, pvars, rqvars, evars, svars>>

\* one turn of `for r in rooms: self._room_cache[r["name"]] = r["id"]`
ThreadFill(t) ==
    /\ th[t].pc = "filling"
    /\ th[t].idx <= Len(th[t].rooms)
    /\ \E r \in {th[t].rooms[th[t].idx]} :
          /\ room_cache' = FillCache(room_cache, <<r>>)
          /\ cache_stamp' = (r.name :> th[t].stamp) @@ cache_stamp
    /\ th' = [th EXCEPT ![t].idx = @ + 1]
    /\ UNCHANGED <<clock, srv_rooms, listings, rvars, pvars, rqvars, evars, svars>>

\* the for loop is over: the second lookup, and the return or NotFoundError
ThreadFinish(t) ==
    /\ th[t].pc = "filling"
    /\ th[t].idx > Len(th[t].rooms)
    /\ th' = [th EXCEPT ![t] = Back(t, Looked(t))]
    /\ UNCHANGED <<cache_stamp, clock, cachevars, rvars, pvars, rqvars, evars, svars>>

\* thread t calls create_room(name) and the POST is answered
ThreadCreate(t) ==
    /\ th[t].pc = "idle"
    /\ r_ops < MaxOps
    /\ Len(srv_rooms) < Len(IdOrder)
    /\ \E name \in RoomNames, resp \in RoomResponses :
          \E a \in {CreateAnswer(resp, srv_rooms, name)} :
              IF a.kind = "return"
              THEN /\ srv_rooms' = Append(srv_rooms, [name |-> name, id |-> a.val.id,
                                                      gone |-> FALSE])
                   /\ th' = [th EXCEPT ![t] =
                                [@ EXCEPT !.pc = "posted", !.room = name,
                                          !.id = a.val.id, !.stamp = clock + 1]]
              ELSE UNCHANGED <<srv_rooms, th>>
    /\ clock' = clock + 1
    /\ r_ops' = r_ops + 1
    /\ UNCHANGED <<cache_stamp, room_cache, listings, r_last, r_resolved, pvars,
                   rqvars, evars, svars>>

\* self._room_cache[name] = result["id"] of create_room
ThreadInsert(t) ==
    /\ th[t].pc = "posted"
    /\ \E c \in {CreateRoom(room_cache, th[t].room,
                           Returned([name |-> th[t].room, id |-> th[t].id]))} :
          room_cache' = c.cache
    /\ cache_stamp' = (th[t].room :> th[t].stamp) @@ cache_stamp
    /\ th' = [th EXCEPT ![t] = Back(t, th[t].saw)]
    /\ UNCHANGED <<clock, srv_rooms, listings, rvars, pvars, rqvars, evars, svars>>

(***************************************************************************)
(* Specification SpecExample: examples/agent-sse.py.  main opens the       *)
(* stream with the URL it built once, `since` the time of its start; on    *)
(* every connection the service sends what the room holds since then.      *)
(***************************************************************************)
\* --name
AgentName == <<"b", "o", "t">>
KSender == <<"s", "e", "n", "d", "e", "r">>
KContent == <<"c", "o", "n", "t", "e", "n", "t">>
KId == <<"i", "d">>

\* str.lower(), for the letters of the model's texts
Lowered == ("B" :> "b") @@ ("H" :> "h")
Lower(s) == [i \in 1..Len(s) |-> IF s[i] \in DOMAIN Lowered THEN Lowered[s[i]] ELSE s[i]]
\* sub in s
Contains(s, sub) ==
    \E i \in 1..(Len(s) - Len(sub) + 1) : SubSeq(s, i, i + Len(sub) - 1) = sub

\* the JSON text of a message
Quoted(s) == <<"\"">> \o s \o <<"\"">>
MsgJson(id, sender, content) ==
    <<"{">> \o Quoted(KId) \o <<":">> \o Quoted(id) \o <<",">>
        \o Quoted(KSender) \o <<":">> \o Quoted(sender) \o <<",">>
        \o Quoted(KContent) \o <<":">> \o Quoted(content) \o <<"}">>

\* what the room holds since `since`: a mention of the agent by ann, a
\* message of the agent itself; the service sends a heartbeat between them
ExampleFeed ==
    << [type |-> TMessage,
        lines |-> <<MsgJson(<<"1">>, <<"a", "n", "n">>, <<"H", "i", " ", "@", "B", "o", "t">>)>>],
       RHeartbeat,
       [type |-> TMessage,
        lines |-> <<MsgJson(<<"2">>, AgentName, <<"@", "b", "o", "t">>)>>] >>

\* what a blank line yields in stream_sse: the pair (event_type, data), none
\* when the data is no JSON
ExampleEmit(st) ==
    IF StrTruthy(st.event_type) /\ st.data_lines # <<>>
    THEN CHOOSE out \in {IF parsed.ok
                         THEN <<[event |-> st.event_type.v, data |-> parsed.val]>>
                         ELSE <<>> :
                         parsed \in {JsonLoads(JoinLines(st.data_lines))}} : TRUE
    ELSE <<>>

\* one iteration of `for raw_line in resp` of stream_sse
ExampleStep(st, raw_line) ==
    LET line == RStripNewline(raw_line)
    IN  IF StartsWith(line, EventPrefix)
        THEN [st |-> [st EXCEPT !.event_type =
                         PyStr(Strip(SubSeq(line, 7, Len(line))))],
              out |-> <<>>]
        ELSE IF StartsWith(line, DataPrefix)
        THEN [st |-> [st EXCEPT !.data_lines =
                         Append(@, Strip(SubSeq(line, 6, Len(line))))],
              out |-> <<>>]
        ELSE IF line = <<>>
        THEN [st |-> ParserInit, out |-> ExampleEmit(st)]
        ELSE [st |-> st, out |-> <<>>]

\* handle_message(msg, agent_name, ...): the reply_to of the messages it sends
HandleMessage(msg, agent_name) ==
    IF DictGet(msg, KSender, PyStr(<<"?">>)) = PyStr(agent_name)
    THEN <<>>
    ELSE IF Contains(Lower(DictGet(msg, KContent, PyStr(<<>>)).v), <<"@">> \o agent_name)
    THEN <<DictGet(msg, KId, PyNone)>>
    ELSE <<>>

\* the body of the for loop of main: the messages handled and the replies sent
MainOnEvent(ev, agent_name) ==
    IF ev.event = TMessage
    THEN [handled |-> <<DictGet(ev.data, KId, PyNone)>>,
          replies |-> HandleMessage(ev.data, agent_name)]
    ELSE [handled |-> <<>>, replies |-> <<>>]

\* the except clause of stream_sse
ExampleCaughtClasses == {"URLError", "ConnectionResetError", "TimeoutError"}
ExampleCaught(e) == \E c \in ExampleCaughtClasses : IsSubclass(e, c)

ExampleIdle ==
    /\ e_pc = "idle"
    /\ e_parser = ParserInit
    /\ e_wire = <<>>
    /\ e_pos = 1
    /\ e_attempts = 0
    /\ e_handled = <<>>
    /\ e_replies = <<>>

\* main has built stream_url and pulls stream_sse(stream_url) for the first time
ExampleStart ==
    /\ e_pc = "connecting"
    /\ e_parser = ParserInit
    /\ e_wire = <<>>
    /\ e_pos = 1
    /\ e_attempts = 0
    /\ e_handled = <<>>
    /\ e_replies = <<>>

\* urlopen(req, timeout=60) with the same URL as ever: the service starts at
\* the first record since `since`
ExampleConnect ==
    /\ e_pc = "connecting"
    /\ e_attempts < MaxAttempts
    /\ e_attempts' = e_attempts + 1
    /\ \E open \in {"ok"} \cup OpenFailures :
          e_pc' = IF open = "ok" THEN "streaming"
                  ELSE IF ExampleCaught(open) THEN "sleeping" ELSE "raised"
    /\ e_parser' = ParserInit
    /\ e_wire' = <<>>
    /\ e_pos' = 1
    /\ UNCHANGED <<e_handled, e_replies, pvars, rqvars, cachevars, rvars, svars, tvars>>

\* the service writes the next record of the connection
ExampleSend ==
    /\ e_pc = "streaming"
    /\ e_wire = <<>>
    /\ e_pos <= Len(ExampleFeed)
    /\ e_wire' = EncodeRecord(ExampleFeed[e_pos])
    /\ e_pos' = e_pos + 1
    /\ UNCHANGED <<e_pc, e_parser, e_attempts, e_handled, e_replies, pvars, rqvars,
                   cachevars, rvars, svars, tvars>>

\* stream_sse reads the next line; at an event the body of the for loop of
\* main runs
ExampleReadLine ==
    /\ e_pc = "streaming"
    /\ e_wire # <<>>
    /\ \E r \in {ExampleStep(e_parser, Head(e_wire))} :
          /\ e_parser' = r.st
          /\ IF r.out = <<>>
             THEN UNCHANGED <<e_handled, e_replies>>
             ELSE \E m \in {MainOnEvent(r.out[1], AgentName)} :
                     /\ e_handled' = e_handled \o m.handled
                     /\ e_replies' = e_replies \o m.replies
    /\ e_wire' = Tail(e_wire)
    /\ UNCHANGED <<e_pc, e_pos, e_attempts, pvars, rqvars, cachevars, rvars, svars,
                   tvars>>

\* the connection fails while the next line is read
ExampleReadFail ==
    /\ e_pc = "streaming"
    /\ \E e \in ReadFailures :
          e_pc' = IF ExampleCaught(e) THEN "sleeping" ELSE "raised"
    /\ e_wire' = <<>>
    /\ UNCHANGED <<e_parser, e_pos, e_attempts, e_handled, e_replies, pvars, rqvars,
                   cachevars, rvars, svars, tvars>>

\* the response ends: the for loop and the with block end, `while True`
\* starts over
ExampleEndOfStream ==
    /\ e_pc = "streaming"
    /\ e_pc' = "connecting"
    /\ e_wire' = <<>>
    /\ UNCHANGED <<e_parser, e_pos, e_attempts, e_handled, e_replies, pvars, rqvars,
                   cachevars, rvars, svars, tvars>>

\* time.sleep(3) returns
ExampleWake ==
    /\ e_pc = "sleeping"
    /\ e_pc' = "connecting"
    /\ UNCHANGED <<e_parser, e_wire, e_pos, e_attempts, e_handled, e_replies, pvars,
                   rqvars, cachevars, rvars, svars, tvars>>

(***************************************************************************)
(* The specifications                                                      *)
(***************************************************************************)
InitParser == ParserStart /\ RequestIdle /\ CacheIdle /\ ResolverIdle /\ StreamIdle /\ ThreadsIdle /\ ExampleIdle
NextParser == ParserReadLine
SpecParser == InitParser /\ [][NextParser]_vars

InitRequest == ParserIdle /\ RequestIdle /\ CacheIdle /\ ResolverIdle /\ StreamIdle /\ ThreadsIdle /\ ExampleIdle
NextRequest == DoRequest
SpecRequest == InitRequest /\ [][NextRequest]_vars

InitResolver == ParserIdle /\ RequestIdle /\ CacheIdle /\ ResolverIdle /\ StreamIdle /\ ThreadsIdle /\ ExampleIdle
NextResolver == Resolve \/ SrvCreate \/ SrvRename \/ SrvDelete
SpecResolver == InitResolver /\ [][NextResolver]_vars

\* stream_reconnecting against a service whose heartbeats carry a seq
InitCursor == ParserIdle /\ RequestIdle /\ CacheIdle /\ ResolverIdle /\ ThreadsIdle /\ ExampleIdle /\ StartIn({"beat"})
NextCursor == Connect \/ ServerSendExtra \/ ReadLine \/ ReadFail \/ EndOfStream \/ Wake
SpecCursor == InitCursor /\ [][NextCursor]_vars

\* one client resolving, creating and renaming rooms
InitRooms == ParserIdle /\ RequestIdle /\ CacheIdle /\ ResolverIdle /\ StreamIdle /\ ThreadsIdle /\ ExampleIdle
NextRooms == Resolve \/ ClientCreate \/ ClientUpdate
SpecRooms == InitRooms /\ [][NextRooms]_vars

\* one client resolving, creating, renaming, deleting and archiving rooms
\* bound: the calls of the client
MaxAdminOps == 3
InitAdmin == ParserIdle /\ RequestIdle /\ CacheIdle /\ ResolverIdle /\ StreamIdle /\ ThreadsIdle /\ ExampleIdle
NextAdmin ==
    \/ r_ops < MaxAdminOps /\ Resolve
    \/ r_ops < MaxAdminOps /\ ClientCreate
    \/ r_ops < MaxAdminOps /\ ClientUpdate
    \/ r_ops < MaxAdminOps /\ ClientDelete
    \/ r_ops < MaxAdminOps /\ ClientArchive
SpecAdmin == InitAdmin /\ [][NextAdmin]_vars

InitStream == ParserIdle /\ RequestIdle /\ CacheIdle /\ ResolverIdle /\ ThreadsIdle /\ ExampleIdle /\ StreamStart
NextStream ==
    \/ Connect
    \/ ServerSendLog
    \/ ServerSendExtra
    \/ ReadLine
    \/ ReadFail
    \/ EndOfStream
    \/ Wake
SpecStream == InitStream /\ [][NextStream]_vars

\* stream_reconnecting against a service that comes back: the connection is
\* lost or refused a bounded number of times, and the attempt after the last
\* loss is answered.  The consumer keeps pulling, so the loop always takes its
\* next step; time.sleep returns; the service goes on writing its log.
InitLive ==
    /\ ParserIdle /\ RequestIdle /\ CacheIdle /\ ResolverIdle /\ ThreadsIdle /\ ExampleIdle
    /\ StartIn({"log"})
    /\ s_room = NGeneral
LiveConnect == Connect /\ (attempts = MaxAttempts - 1 => pc' = "streaming")
LiveReadFail == attempts < MaxAttempts /\ ReadFail
LiveEndOfStream == attempts < MaxAttempts /\ EndOfStream
NextLive ==
    \/ LiveConnect
    \/ ServerSendLog
    \/ ServerSendExtra
    \/ ReadLine
    \/ LiveReadFail
    \/ LiveEndOfStream
    \/ Wake
\* a line of the response is waiting to be read: ReadLine is enabled
LineWaiting == pc = "streaming" /\ wire # <<>>
\* the last conjunct is WF_vars(ReadLine) with ENABLED <<ReadLine>>_vars
\* written out as LineWaiting
FairLive ==
    /\ WF_vars(LiveConnect)
    /\ WF_vars(ServerSendLog)
    /\ WF_vars(Wake)
    /\ ([]<>(~LineWaiting) \/ []<><<ReadLine>>_vars)
SpecLive == InitLive /\ [][NextLive]_vars /\ FairLive

\* stream_reconnecting with a consumer that may close the iterator
InitConn == ParserIdle /\ RequestIdle /\ CacheIdle /\ ResolverIdle /\ ThreadsIdle /\ ExampleIdle /\ StartIn({"log"})
NextConn ==
    \/ Connect
    \/ ServerSendLog
    \/ ServerSendExtra
    \/ ReadLine
    \/ ReadFail
    \/ EndOfStream
    \/ Wake
    \/ Close
SpecConn == InitConn /\ [][NextConn]_vars

\* two threads resolving and creating rooms on one client, while rooms are
\* created, renamed and deleted on the service
InitThreads == ParserIdle /\ RequestIdle /\ CacheIdle /\ ResolverIdle /\ StreamIdle /\ ThreadsIdle /\ ExampleIdle
NextThreads ==
    \/ \E t \in Threads : ThreadResolve(t)
    \/ \E t \in Threads : ThreadListed(t)
    \/ \E t \in Threads : ThreadFill(t)
    \/ \E t \in Threads : ThreadFinish(t)
    \/ \E t \in Threads : ThreadCreate(t)
    \/ \E t \in Threads : ThreadInsert(t)
    \/ SrvCreate
    \/ SrvRename
    \/ SrvDelete
SpecThreads == InitThreads /\ [][NextThreads]_vars

\* the example agent against a service that comes and goes
InitExample ==
    /\ ParserIdle /\ RequestIdle /\ CacheIdle /\ ResolverIdle /\ StreamIdle /\ ThreadsIdle
    /\ ExampleStart
NextExample ==
    \/ ExampleConnect
    \/ ExampleSend
    \/ ExampleReadLine
    \/ ExampleReadFail
    \/ ExampleEndOfStream
    \/ ExampleWake
SpecExample == InitExample /\ [][NextExample]_vars

(***************************************************************************)
(* Properties                                                              *)
(***************************************************************************)
\* the event the consumer should see for the log event with seq n
LogEvent(n) ==
    [event |-> TMessage, data |-> PyDict(KSeq :> PyInt(n)), raw |-> SeqJson(n)]
HasNumericSeq(ev) ==
    ev.data.k = "dict" /\ KSeq \in DOMAIN ev.data.v /\ ev.data.v[KSeq].k = "int"
\* the yielded events that carry a seq: the events of the log
YieldedLogged == SelectSeq(yielded, HasNumericSeq)

\* C1: with a service that replays its log in seq order and honours `after`,
\* the consumer sees the log events exactly once and in seq order, whatever
\* connections were lost and wherever: the logged events yielded so far are
\* the first events of the log, and all of them once a connection has
\* delivered the end of the log.
C1_ExactlyOnceInOrder ==
    srv_mode = "log" =>
        /\ Len(YieldedLogged) <= LogLen
        /\ \A i \in 1..Len(YieldedLogged) : YieldedLogged[i] = LogEvent(i)
        /\ (pc = "streaming" /\ srv_pos = LogLen + 1 /\ wire = <<>>)
              => Len(YieldedLogged) = LogLen

\* C1 witness: the whole log was yielded over a reconnection with after=1
\* that followed a connection lost inside a record
C1_Witness ==
    /\ srv_mode = "log"
    /\ cut
    /\ attempts >= 2
    /\ after_sent = [sent |-> TRUE, val |-> PyInt(1)]
    /\ Len(YieldedLogged) = LogLen

\* C2: the cursor is the maximum seq consumed so far, also when the seqs
\* arrive out of order: it never holds a smaller value.
C2_CursorIsMaxSeen == last_seq.k = "int" => last_seq = max_seen

Pow2(n) == IF n <= 0 THEN 1 ELSE 2 ^ n

\* C3: with max_backoff >= 1, the k-th consecutive failure with no event
\* consumed in between sleeps min(2^(k-1), max_backoff); a consumed event
\* starts the count again, so the next failure sleeps 1.
C3_BackoffSchedule ==
    (pc = "sleeping" /\ s_max_backoff >= 1)
        => sleep_dur = Min(Pow2(fails - 1), s_max_backoff)

\* C3 witness: after sleeps longer than 1 and a yielded event, the first
\* failure sleeps 1 again
C3_Witness ==
    /\ pc = "sleeping"
    /\ s_max_backoff >= 1
    /\ escalated
    /\ yielded # <<>>
    /\ fails = 1
    /\ sleep_dur = 1

NotHeartbeat(ev) == ev.event # THeartbeat

\* C4: the events yielded are the events the parser produced over all
\* connections without the heartbeats, in the same order.
C4_HeartbeatsFiltered == yielded = SelectSeq(produced, NotHeartbeat)

\* C4 witness: events were yielded over two connections while a heartbeat
\* was parsed and not yielded
C4_Witness ==
    /\ attempts >= 2
    /\ Len(yielded) >= 2
    /\ Len(produced) > Len(yielded)
    /\ \E i \in 1..Len(produced) : produced[i].event = THeartbeat

\* C5: no failure of the network while opening or reading the stream reaches
\* the consumer: stream_reconnecting never ends by raising one.
C5_NetworkFailureNeverRaised ==
    ~(pc = "raised" /\ exc \in OpenFailures \cup ReadFailures)

\* s without its leading and trailing whitespace
Trimmed(s) ==
    LET idx == {i \in 1..Len(s) : s[i] \notin Whitespace}
    IN  IF idx = {} THEN <<>>
        ELSE SubSeq(s, CHOOSE i \in idx : \A j \in idx : i <= j,
                       CHOOSE i \in idx : \A j \in idx : i >= j)
TrimmedLines(ls) == [i \in 1..Len(ls) |-> Trimmed(ls[i])]
\* the pairs that make a record with a type and data
WithTypeAndData(r) == Trimmed(r.type) # <<>> /\ r.lines # <<>>

\* C6 as stated: one event per pair, with the pair's eventType and its
\* payload lines joined by a newline, for any pairs.
C6_RoundTripVerbatim ==
    p_wire = <<>> =>
        /\ Len(p_out) = Len(p_pairs)
        /\ \A i \in 1..Len(p_out) :
              /\ p_out[i].event = p_pairs[i].type
              /\ p_out[i].raw = JoinLines(p_pairs[i].lines)

\* C6 amended: one event per pair that has an eventType which is not blank
\* and at least one payload line, none for the other pairs, in order; event is
\* the eventType and raw the payload lines joined by a newline, each without
\* its leading and trailing whitespace.
C6_RoundTripTrimmed ==
    p_wire = <<>> =>
        LET ps == SelectSeq(p_pairs, WithTypeAndData)
        IN  /\ Len(p_out) = Len(ps)
            /\ \A i \in 1..Len(p_out) :
                  /\ p_out[i].event = Trimmed(ps[i].type)
                  /\ p_out[i].raw = JoinLines(TrimmedLines(ps[i].lines))

\* C6 witness: two records were decoded, one of them with a padded type and
\* two payload lines
C6_Witness ==
    /\ p_wire = <<>>
    /\ Len(p_out) = 2
    /\ Len(p_pairs) = 2
    /\ p_pairs[1].type # Trimmed(p_pairs[1].type)
    /\ Len(p_pairs[1].lines) = 2

\* C7 as stated: a record whose data is no JSON is yielded with data equal to
\* its raw text, and the records after it are still yielded; raw is always
\* the original joined text of the record.
C7_BadJsonVerbatim ==
    LET ps == SelectSeq(p_pairs, WithTypeAndData)
    IN  /\ Len(p_out) <= Len(ps)
        /\ p_wire = <<>> => Len(p_out) = Len(ps)
        /\ \A i \in 1..Len(p_out) :
              /\ p_out[i].raw = JoinLines(ps[i].lines)
              /\ ~JsonLoads(p_out[i].raw).ok => p_out[i].data = PyStr(p_out[i].raw)

\* C7 amended: a record with a type and data whose joined data is no JSON is
\* yielded with data equal to its raw text, and the records after it are
\* still yielded; raw is always the data lines joined by a newline, each
\* without its leading and trailing whitespace.
C7_BadJsonFallsBack ==
    LET ps == SelectSeq(p_pairs, WithTypeAndData)
    IN  /\ Len(p_out) <= Len(ps)
        /\ p_wire = <<>> => Len(p_out) = Len(ps)
        /\ \A i \in 1..Len(p_out) :
              /\ p_out[i].raw = JoinLines(TrimmedLines(ps[i].lines))
              /\ ~JsonLoads(p_out[i].raw).ok => p_out[i].data = PyStr(p_out[i].raw)
              /\ JsonLoads(p_out[i].raw).ok => p_out[i].data = JsonLoads(p_out[i].raw).val

\* C7 witness: a record that is no JSON was yielded as text, and the JSON
\* record after it was yielded decoded
C7_Witness ==
    /\ Len(p_out) = 2
    /\ p_out[1].raw = PlainText
    /\ p_out[1].data = PyStr(PlainText)
    /\ p_out[2].data = PyDict(KSeq :> PyInt(1))

\* the canonical identifier shape: 36 characters, "-" at 9, 14, 19 and 24 only
IsCanonicalId(room) ==
    Len(room) = 36 /\ \A i \in 1..36 : (room[i] = "-") <=> (i \in {9, 14, 19, 24})

\* C8: a resolve of a name that an earlier resolve returned an id for sends
\* no listing request and returns; the first resolve of an existing name on
\* a new client sends one; a reference of identifier shape is returned
\* unchanged without a listing request.
C8_ResolverCaches ==
    r_last.op = "resolve" =>
        /\ r_last.known => (~r_last.listed /\ r_last.out.kind = "return")
        /\ (r_last.fresh /\ r_last.served)
              => (r_last.listed /\ r_last.out = Returned(r_last.srv_id))
        /\ IsCanonicalId(r_last.room)
              => (~r_last.listed /\ r_last.out = Returned(r_last.room))

\* C8 witness: the second resolve of "general" was served from the cache,
\* one listing request in all
C8_Witness ==
    /\ r_last.op = "resolve"
    /\ r_last.room = NGeneral
    /\ r_last.known
    /\ ~r_last.listed
    /\ listings = 1
    /\ r_ops = 2

\* the resolver of this stream did not find the room in a listing it got
NotFoundInListing ==
    /\ pc # "idle"
    /\ s_room \notin LiveNames(srv_rooms)
    /\ room_cache # EmptyMap

\* C9: a name absent from the refreshed listing ends stream_reconnecting by
\* raising NotFoundError, after that one listing request.
C9_NotFoundIsTerminal ==
    NotFoundInListing => (pc = "raised" /\ exc = "NotFoundError")

\* the variant the claim names for a status
VariantOfStatus(status) ==
    CASE status = 404 -> "NotFoundError"
      [] status = 409 -> "ConflictError"
      [] status = 429 -> "RateLimitError"
      [] status \in {401, 403} -> "AuthError"
      [] OTHER -> "ChatError"

\* C10: for a status outside 2xx _request raises, whatever the body, the
\* content type and the raw flag; the class is decided by the status alone
\* and status_code is the status.
C10_StatusDecidesError ==
    (rq_in # PyNone /\ rq_in.resp.net = "ok"
        /\ ~(rq_in.resp.status >= 200 /\ rq_in.resp.status < 300))
        => /\ rq_out.kind = "raise"
           /\ rq_out.exc = VariantOfStatus(rq_in.resp.status)
           /\ rq_out.status_code = rq_in.resp.status

\* C10 witness: a 403 with a body that is no JSON object raised AuthError
C10_Witness ==
    /\ rq_in # PyNone
    /\ rq_in.resp.net = "ok"
    /\ rq_in.resp.status = 403
    /\ rq_in.resp.body = BText
    /\ rq_out.kind = "raise"
    /\ rq_out.exc = "AuthError"
    /\ rq_out.status_code = 403

\* the response of the last request was an HTTP 429
Got429 == rq_in # PyNone /\ rq_in.resp.net = "ok" /\ rq_in.resp.status = 429

\* C11: a 429 raises RateLimitError; retry_after is the retry_after_secs of
\* the body when the body is a JSON object with that field, 0 for an empty
\* body, a body that is no JSON, JSON that is no object, or no such field.
C11_RetryAfterFromBody ==
    Got429 =>
        /\ rq_out.kind = "raise"
        /\ rq_out.exc = "RateLimitError"
        /\ rq_in.resp.body = BRetry => rq_out.retry_after = PyInt(2)
        /\ rq_in.resp.body \in {<<>>, BText, BNumber, BErrorDup, BEmptyObject}
              => rq_out.retry_after = PyInt(0)

\* C11 witness: a 429 whose body carries retry_after_secs 2 raised
\* RateLimitError with retry_after 2
C11_Witness ==
    /\ Got429
    /\ rq_in.resp.body = BRetry
    /\ rq_out.exc = "RateLimitError"
    /\ rq_out.retry_after = PyInt(2)

\* C12: a request that gets no HTTP response raises the base ChatError with
\* status_code 0, whatever the failure of the network was.
C12_NetworkFailureIsChatError ==
    (rq_in # PyNone /\ rq_in.resp.net # "ok")
        => /\ rq_out.kind = "raise"
           /\ rq_out.exc = "ChatError"
           /\ rq_out.status_code = 0

\* C13: a NotFoundError raised by a call that resolves a room carries
\* status_code 404.
C13_NotFoundCarries404 ==
    (r_last.op = "resolve" /\ r_last.out.kind = "raise"
        /\ r_last.out.exc = "NotFoundError")
        => r_last.out.status_code = 404

\* the call before this resolve was a create_room(name) / update_room(..., name)
\* that returned, and this resolve is of that name
ResolveAfter(op) ==
    /\ r_last.op = "resolve"
    /\ r_last.prev.op = op
    /\ r_last.prev.ok
    /\ r_last.prev.room = r_last.room

C15_RenameThenResolve ==
    (ResolveAfter("update") /\ r_last.served /\ r_last.srv_id = r_last.prev.id)
        => r_last.out = Returned(r_last.prev.id)

\* C16: a resolve returns its reference unchanged with no listing request
\* exactly when the reference has the canonical shape of an identifier.
C16_PassThroughIffCanonical ==
    r_last.op = "resolve" =>
        ((~r_last.listed /\ r_last.out = Returned(r_last.room))
            <=> IsCanonicalId(r_last.room))

\* C17: after a resolve that fetched the listing, the cache holds exactly the
\* name-to-id pairs of that listing.
C17_RefreshReplacesCache ==
    (r_last.op = "resolve" /\ r_last.listed /\ r_last.listing_ok)
        => room_cache = FillCache(EmptyMap, r_last.snapshot)

\* C18: a connection attempt after the first is made only after a sleep: the
\* controller is never about to connect again without having slept since
\* its last attempt.
C18_SleepBeforeEveryRetry ==
    (pc = "connecting" /\ attempts >= 1) => slept

\* C19: no sleep is longer than max_backoff, whatever max_backoff is.
C19_SleepWithinCeiling ==
    pc = "sleeping" => sleep_dur <= s_max_backoff

\* C20: when the event consumed last carries a numeric seq, the cursor is
\* that seq, for an event of any type, heartbeat included.
C20_EveryNumericSeqMovesCursor ==
    (produced # <<>> /\ HasNumericSeq(produced[Len(produced)]))
        => last_seq = produced[Len(produced)].data.v[KSeq]

\* C21: the cursor is undefined or a number, and once an event with a numeric
\* seq has moved it, it is a number for ever: no event without a usable seq
\* changes it.
C21_CursorStaysNumeric ==
    /\ last_seq.k \in {"none", "int"}
    /\ max_seen # PyNone => last_seq.k = "int"

\* the step is a connection attempt of stream_reconnecting whose room was
\* resolved, so that the request of the stream is made
AttemptStep == attempts' = attempts + 1 /\ s_room \in DOMAIN room_cache'
\* no event consumed so far carries a seq
NoSeqConsumed ==
    \A i \in 1..Len(produced) :
        ~(produced[i].data.k = "dict" /\ KSeq \in DOMAIN produced[i].data.v)

\* C22: a connection attempt sends `after` equal to the cursor of that
\* moment, 0 included, and no `after` when the cursor is undefined, as it is
\* before any event with a seq was consumed.
C22_AfterIsCursorVerbatim ==
    [][AttemptStep =>
          /\ last_seq = PyNone => after_sent' = [sent |-> FALSE]
          /\ last_seq # PyNone => after_sent' = [sent |-> TRUE, val |-> last_seq]
          /\ NoSeqConsumed => ~after_sent'.sent]_vars

\* C22 witness: a second attempt was made with after=0 while the cursor was 0
C22_Witness ==
    /\ attempts >= 2
    /\ pc = "streaming"
    /\ last_seq = PyInt(0)
    /\ after_sent = [sent |-> TRUE, val |-> PyInt(0)]

\* C23: reading a line yields an event exactly when the line is blank and a
\* non-empty type and at least one data line are pending; after a blank line
\* nothing is pending; every yielded event has a non-empty type.
C23_BlankLineYieldsAndResets ==
    [][p_wire # <<>> =>
          /\ (p_out' # p_out)
                <=> (/\ Head(p_wire) = BlankLine
                     /\ p_state.event_type.k = "str"
                     /\ p_state.event_type.v # <<>>
                     /\ p_state.data_lines # <<>>)
          /\ Head(p_wire) = BlankLine
                => (p_state'.event_type = PyNone /\ p_state'.data_lines = <<>>)
          /\ \A i \in 1..Len(p_out') : p_out'[i].event # <<>>]_vars

\* C23 witness: a block with a type and no data, then a block with data and
\* an empty type, were read to the end and nothing was yielded
C23_Witness ==
    /\ p_wire = <<>>
    /\ Len(p_pairs) = 2
    /\ p_pairs[1] = [type |-> TMessage, lines |-> <<>>]
    /\ p_pairs[2] = [type |-> <<>>, lines |-> <<PlainText>>]
    /\ p_out = <<>>
    /\ p_state = ParserInit

\* C24: with a consumer that keeps pulling, sleeps that return and a service
\* that, after finitely many lost or refused connections, answers and replays
\* its log from `after`, every event of the log is eventually yielded.
C24_LogEventuallyYielded ==
    <>(\A i \in 1..LogLen : \E j \in 1..Len(yielded) : yielded[j] = LogEvent(i))

\* C25: the iterator holds at most one open response at any time; when the
\* stream is left (a read fails, the response ends, the consumer closes the
\* iterator) no response stays open; and a connection is opened only when no
\* response of an earlier attempt is open.
C25_OneConnectionReleased ==
    [][/\ Cardinality(open_conns') <= 1
       /\ (pc = "streaming" /\ pc' # "streaming") => open_conns' = {}
       /\ (pc # "streaming" /\ pc' = "streaming") => open_conns = {}]_vars

\* C25 witness: the consumer closed the iterator on the last connection,
\* inside a record or after one was cut, after two attempts were refused or
\* lost in a row; nothing is open
C25_Witness ==
    /\ pc = "closed"
    /\ attempts = MaxAttempts
    /\ escalated
    /\ cut
    /\ yielded # <<>>
    /\ open_conns = {}

\* C26: no thread ever looks a name up in a cache that another thread has
\* filled with only part of its listing.
C26_RefreshAtomic == \A t \in Threads : ~th[t].saw

\* a thread writes a pair of its listing into the cache
FillStep == \E t \in Threads : th[t].pc = "filling" /\ th'[t].idx = th[t].idx + 1

\* C27: a pair written from a listing never replaces a pair with another id
\* that was fetched or created after the listing was fetched.
C27_CacheNeverMovesBackwards ==
    [][FillStep =>
          \A n \in DOMAIN room_cache :
              room_cache'[n] # room_cache[n] => cache_stamp'[n] >= cache_stamp[n]]_vars

\* the call before this resolve was a delete_room(name), or an update_room
\* that gave the room called name another name, that returned, and this
\* resolve is of that name
ResolveOfLeftName ==
    /\ r_last.op = "resolve"
    /\ r_last.prev.ok
    /\ r_last.prev.ref = r_last.room
    /\ \/ r_last.prev.op = "delete"
       \/ r_last.prev.op = "update" /\ r_last.prev.room # r_last.prev.ref

\* C28: a call changes the cache only if it is a create_room that returned or
\* it listed the rooms on a miss; and the resolve of a name that follows a
\* delete_room of it, or a rename away from it, returns the id the cache
\* holds, the id of that room, with no listing request.
C28_OnlyCreateAndRefreshWrite ==
    /\ [](ResolveOfLeftName =>
              ~r_last.listed /\ r_last.out = Returned(r_last.prev.id))
    /\ [][room_cache' # room_cache =>
              \/ r_last'.op = "create" /\ r_last'.out.kind = "return"
              \/ listings' = listings + 1]_vars

\* C28 witness: general was deleted by the client and is gone on the
\* service; the resolve of general returned its id with no listing request
C28_Witness ==
    /\ r_last.op = "resolve"
    /\ r_last.room = NGeneral
    /\ r_last.prev.op = "delete"
    /\ r_last.prev.ok
    /\ NGeneral \notin LiveNames(srv_rooms)
    /\ ~r_last.listed
    /\ r_last.out = Returned(IdOrder[1])

\* the events of the records the service sends, each sent whole
WholeEvents ==
    {SSEEvent(r.type, r.lines) :
        r \in {Log[i] : i \in 1..LogLen} \cup ExtraRecords \cup AnyRecords}

\* C29: when a connection ends or fails, nothing is produced or yielded and
\* the cursor stays; a connection starts with no type and no data line
\* pending; and every event ever produced is the event of one whole record,
\* never one made of lines of a record that was cut.
C29_CutRecordIsDropped ==
    /\ [](\A i \in 1..Len(produced) : produced[i] \in WholeEvents)
    /\ [][/\ (pc = "streaming" /\ pc' # "streaming")
               => (produced' = produced /\ yielded' = yielded /\ last_seq' = last_seq)
          /\ (pc # "streaming" /\ pc' = "streaming") => parser' = ParserInit]_vars

\* C29 witness: the first connection failed inside a record, and the second
\* has delivered an event since
C29_Witness ==
    /\ cut
    /\ attempts = 2
    /\ pc = "streaming"
    /\ sleep_dur > 0
    /\ fails = 0
    /\ Len(produced) = 1
    /\ parser = ParserInit

\* C30: over all connections handle_message is invoked at most once with one
\* message, and the agent sends at most one reply to one message.
C30_HandledAtMostOnce ==
    /\ \A i, j \in 1..Len(e_handled) : e_handled[i] = e_handled[j] => i = j
    /\ \A i, j \in 1..Len(e_replies) : e_replies[i] = e_replies[j] => i = j

====
